---- MODULE Spec2Model ----
(***************************************************************************)
(* A model of annotated_diffusion.ipynb: the diffusion schedule, forward   *)
(* noising (q_sample), the loss (p_losses), reverse sampling (p_sample,    *)
(* p_sample_loop), num_to_groups, the shape flow of Unet.forward and the   *)
(* training loop.                                                          *)
(*                                                                         *)
(* Numbers.  The notebook computes in float32.  A tensor element is         *)
(* modelled as a fixed-point decimal with six fractional digits: the        *)
(* integer v stands for v / ONE.  Products and quotients are truncated      *)
(* towards zero, so every operation rounds, as a float operation does.      *)
(* Tensors.  A tensor of shape (b, n) is a sequence of b rows, each a       *)
(* sequence of n elements (the channel, height and width axes flattened).  *)
(***************************************************************************)
EXTENDS Integers, Sequences, FiniteSets, TLC

VARIABLES
    \* the schedule (cell 15, 16)
    timesteps, betas, alphas, alphas_cumprod, alphas_cumprod_prev,
    sqrt_recip_alphas, sqrt_alphas_cumprod, sqrt_one_minus_alphas_cumprod,
    posterior_variance,
    \* the operation in progress and its position
    pc,
    \* arguments and result of a called function, and the random tensor the
    \* last step drew (None when it drew none)
    args, ret, rand,
    \* the network's weight (the model parameters)
    params,
    \* p_sample_loop: the current image, the list of recorded images, the number
    \* of the loop's next iteration, and the log of the p_sample calls made
    img, imgs, iter, calls,
    \* the training run (cells 25, 28): its settings, the loop variables, the
    \* gradient held by the parameters, the files written to results_folder,
    \* and the log of the statements run for the current batch
    epochs, save_and_sample_every, dataloader,
    epoch, step, batch, batch_size, t_batch, loss, grads, files, trace, opt_steps,
    \* Unet.forward: the constructed network, the shapes of x and r, the stack h
    \* of the shapes kept for the skip connections, and the stage the encoder
    \* or decoder loop is at
    net, xshape, rshape, h, ind

schedVars == <<timesteps, betas, alphas, alphas_cumprod, alphas_cumprod_prev,
               sqrt_recip_alphas, sqrt_alphas_cumprod,
               sqrt_one_minus_alphas_cumprod, posterior_variance>>

callVars == <<args, ret, rand>>

sampVars == <<img, imgs, iter, calls>>

cfgVars == <<epochs, save_and_sample_every, dataloader>>
trainVars == <<epoch, step, batch, batch_size, t_batch, loss, grads, files, trace, opt_steps>>

unetVars == <<net, xshape, rshape, h, ind>>

vars == <<schedVars, pc, callVars, params, sampVars, cfgVars, trainVars, unetVars>>

\* Python's None, where a tensor, a list or a record may stand
None == <<>>

(***************************************************************************)
(* Fixed-point arithmetic                                                  *)
(***************************************************************************)
ONE == 10^6
K == 10^3

Abs(a) == IF a < 0 THEN -a ELSE a
Sgn(a) == IF a < 0 THEN -1 ELSE 1

\* floor(a * b / ONE) for a, b >= 0, by halves so that no product overflows
MulFloor(a, b) ==
    LET a1 == a \div K  a0 == a % K
        b1 == b \div K  b0 == b % K
    IN  a1 * b1 + ((a1 * b0 + a0 * b1) + (a0 * b0) \div K) \div K

\* (a * b) mod ONE for a, b >= 0
MulRem(a, b) ==
    LET a1 == a \div K  a0 == a % K
        b1 == b \div K  b0 == b % K
    IN  (((a1 * b0 + a0 * b1) + (a0 * b0) \div K) % K) * K + ((a0 * b0) % K)

\* a * b
Mul(a, b) == Sgn(a) * Sgn(b) * MulFloor(Abs(a), Abs(b))

\* floor(a * ONE / b) for a >= 0, b > 0, by long division
DivFloor(a, b) ==
    LET q0 == a \div b              r0 == a % b
        q1 == (r0 * K) \div b      r1 == (r0 * K) % b
        q2 == (r1 * K) \div b
    IN  q0 * ONE + q1 * K + q2

\* a / b
Div(a, b) == Sgn(a) * Sgn(b) * DivFloor(Abs(a), Abs(b))

\* r * r <= n * ONE
SqLeq(r, n) == MulFloor(r, r) < n \/ (MulFloor(r, r) = n /\ MulRem(r, r) = 0)

RECURSIVE SqrtBisect(_, _, _)
SqrtBisect(n, lo, hi) ==
    IF hi - lo <= 1 THEN lo
    ELSE LET mid == (lo + hi) \div 2
         IN  IF SqLeq(mid, n) THEN SqrtBisect(n, mid, hi)
             ELSE SqrtBisect(n, lo, mid)

\* torch.sqrt: floor(sqrt(n / ONE) * ONE) for n >= 0
Sqrt(n) == SqrtBisect(n, 0, (IF n > ONE THEN n ELSE ONE) + 1)

(***************************************************************************)
(* The schedule (cells 14 to 16)                                           *)
(***************************************************************************)
beta_start == ONE \div 10000
beta_end == (2 * ONE) \div 100

\* torch.linspace(start, end, steps): steps = 1 gives [start]
linspace(start, end, steps) ==
    [i \in 1..steps |->
        IF steps = 1 THEN start
        ELSE start + ((i - 1) * (end - start)) \div (steps - 1)]

linear_beta_schedule(T) == linspace(beta_start, beta_end, T)

\* OneMinus with the sign wrong: 1. + a
OnePlus(a) == [i \in 1..Len(a) |-> ONE + a[i]]

\* 1. - a, elementwise
OneMinus(a) == [i \in 1..Len(a) |-> ONE - a[i]]

\* torch.cumprod(a, dim=0)
RECURSIVE cumprod(_)
cumprod(a) ==
    IF Len(a) = 0 THEN <<>>
    ELSE LET p == cumprod(SubSeq(a, 1, Len(a) - 1))
         IN  IF Len(p) = 0 THEN <<a[1]>>
             ELSE Append(p, Mul(p[Len(p)], a[Len(a)]))

\* F.pad(a[:-1], (1, 0), value=1.0)
PadPrev(a) == <<ONE>> \o SubSeq(a, 1, Len(a) - 1)

SqrtVec(a) == [i \in 1..Len(a) |-> Sqrt(a[i])]
RecipVec(a) == [i \in 1..Len(a) |-> Div(ONE, a[i])]

\* betas * (1. - alphas_cumprod_prev) / (1. - alphas_cumprod)
PosteriorVariance(b, prev, cum) ==
    [i \in 1..Len(b) |-> Div(Mul(b[i], ONE - prev[i]), ONE - cum[i])]

\* The eight vectors of cell 16 for T timesteps, in the order of schedVars.
Schedule(T) ==
    LET b == linear_beta_schedule(T)
        a == OneMinus(b)
        cum == cumprod(a)
        prev == PadPrev(cum)
    IN  [betas |-> b, alphas |-> a, alphas_cumprod |-> cum,
         alphas_cumprod_prev |-> prev,
         sqrt_recip_alphas |-> SqrtVec(RecipVec(a)),
         sqrt_alphas_cumprod |-> SqrtVec(cum),
         sqrt_one_minus_alphas_cumprod |-> SqrtVec(OneMinus(cum)),
         posterior_variance |-> PosteriorVariance(b, prev, cum)]

\* The state after cells 15 and 16 have run with timesteps = T.
ScheduleDefined(T) ==
    LET s == Schedule(T)
    IN  /\ timesteps = T
        /\ betas = s.betas
        /\ alphas = s.alphas
        /\ alphas_cumprod = s.alphas_cumprod
        /\ alphas_cumprod_prev = s.alphas_cumprod_prev
        /\ sqrt_recip_alphas = s.sqrt_recip_alphas
        /\ sqrt_alphas_cumprod = s.sqrt_alphas_cumprod
        /\ sqrt_one_minus_alphas_cumprod = s.sqrt_one_minus_alphas_cumprod
        /\ posterior_variance = s.posterior_variance

(***************************************************************************)
(* Tensors, extract, the network                                           *)
(***************************************************************************)
Tensors(shape, Vals) == [1..shape[1] -> [1..shape[2] -> Vals]]
ShapeOf(x) == <<Len(x), Len(x[1])>>
Timesteps(b, T) == [1..b -> 0..(T - 1)]

\* values a pixel of a data image and a draw of torch.randn can take
PixelVals == {-ONE, ONE \div 4, ONE}
NoiseVals == {-ONE, 0, (3 * ONE) \div 2}

\* extract(a, t, x_shape): a.gather(-1, t) reshaped to (batch_size, 1, ..., 1),
\* one coefficient per row of the batch
extract(a, t, x_shape) == [b \in 1..Len(t) |-> a[t[b] + 1]]

\* coefficient (b, 1) * tensor (b, n), broadcast along the row
BMul(c, x) == [b \in 1..Len(x) |-> [k \in 1..Len(x[b]) |-> Mul(c[b], x[b][k])]]
BDiv(x, c) == [b \in 1..Len(x) |-> [k \in 1..Len(x[b]) |-> Div(x[b][k], c[b])]]
TAdd(x, y) == [b \in 1..Len(x) |-> [k \in 1..Len(x[b]) |-> x[b][k] + y[b][k]]]
TSub(x, y) == [b \in 1..Len(x) |-> [k \in 1..Len(x[b]) |-> x[b][k] - y[b][k]]]

\* model(x, t): the network's prediction.  The values a Unet computes depend
\* on its weights; the network is represented by one weight w and predicts
\* w * (x + t / 10) elementwise, so w = 0 is the zero-predicting network.
denoise_model(w, x, t) ==
    [b \in 1..Len(x) |-> [k \in 1..Len(x[b]) |->
        Mul(w, x[b][k] + t[b] * (ONE \div 10))]]

(***************************************************************************)
(* Forward noising and the loss (cell 27)                                  *)
(***************************************************************************)
\* NoiseOrDraw testing the noise for falsity, which replaces an all-zero
\* noise too
NoiseOrDrawFalsy(noise, draw) ==
    IF noise = None \/ \A b \in 1..Len(noise) : \A k \in 1..Len(noise[b]) : noise[b][k] = 0
    THEN draw ELSE noise

\* if noise is None: noise = torch.randn_like(x_start)
NoiseOrDraw(noise, draw) == IF noise = None THEN draw ELSE noise

\* whether the call draws from torch.randn_like
DrawsNoise(noise) == noise = None

\* q_sample(x_start, t, noise); draw is what torch.randn_like returns when called
q_sample(x_start, t, noise, draw) ==
    LET eps == NoiseOrDraw(noise, draw)
        sqrt_alphas_cumprod_t == extract(sqrt_alphas_cumprod, t, ShapeOf(x_start))
        sqrt_one_minus_alphas_cumprod_t ==
            extract(sqrt_one_minus_alphas_cumprod, t, ShapeOf(x_start))
    IN  TAdd(BMul(sqrt_alphas_cumprod_t, x_start),
             BMul(sqrt_one_minus_alphas_cumprod_t, eps))

\* reductions of the loss functions: the mean over all elements
RECURSIVE SumSeq(_)
SumSeq(q) == IF Len(q) = 0 THEN 0 ELSE q[1] + SumSeq(Tail(q))
RECURSIVE Flatten(_)
Flatten(x) == IF Len(x) = 0 THEN <<>> ELSE x[1] \o Flatten(Tail(x))
Mean(q) == SumSeq(q) \div Len(q)

\* F.l1_loss, F.mse_loss, F.smooth_l1_loss (beta = 1) of input p and target n;
\* the result is a scalar tensor <<v>>
l1_loss(p, n) ==
    LET d == Flatten(TSub(p, n))
    IN  <<Mean([i \in 1..Len(d) |-> Abs(d[i])])>>
mse_loss(p, n) ==
    LET d == Flatten(TSub(p, n))
    IN  <<Mean([i \in 1..Len(d) |-> Mul(d[i], d[i])])>>
smooth_l1_loss(p, n) ==
    LET d == Flatten(TSub(p, n))
    IN  <<Mean([i \in 1..Len(d) |->
            IF Abs(d[i]) < ONE THEN Mul(d[i], d[i]) \div 2
            ELSE Abs(d[i]) - ONE \div 2])>>

\* LossBranch whose final else falls back to the L1 loss instead of raising
LossBranchFallback(loss_type, predicted_noise, noise) ==
    IF loss_type = "l2" THEN [raised |-> "", loss |-> mse_loss(predicted_noise, noise)]
    ELSE IF loss_type = "huber"
    THEN [raised |-> "", loss |-> smooth_l1_loss(predicted_noise, noise)]
    ELSE [raised |-> "", loss |-> l1_loss(predicted_noise, noise)]

\* the if / elif / else chain of p_losses
LossBranch(loss_type, predicted_noise, noise) ==
    IF loss_type = "l1" THEN [raised |-> "", loss |-> l1_loss(predicted_noise, noise)]
    ELSE IF loss_type = "l2"
    THEN [raised |-> "", loss |-> mse_loss(predicted_noise, noise)]
    ELSE IF loss_type = "huber"
    THEN [raised |-> "", loss |-> smooth_l1_loss(predicted_noise, noise)]
    ELSE [raised |-> "NotImplementedError", loss |-> None]

\* p_losses(denoise_model, x_start, t, noise, loss_type), the network given by
\* its weight w
p_losses(w, x_start, t, noise, loss_type, draw) ==
    LET eps == NoiseOrDraw(noise, draw)
        x_noisy == q_sample(x_start, t, eps, draw)
        predicted_noise == denoise_model(w, x_noisy, t)
    IN  LossBranch(loss_type, predicted_noise, eps)

(***************************************************************************)
(* Reverse sampling (cell 23)                                              *)
(***************************************************************************)
\* no p_sample_loop is running
SampleIdle == img = None /\ imgs = <<>> /\ iter = 0 /\ calls = <<>>

\* torch.full((b,), i)
Full(b, v) == [k \in 1..b |-> v]

\* the posterior mean of p_sample
model_mean(w, x, t) ==
    LET betas_t == extract(betas, t, ShapeOf(x))
        sqrt_one_minus_alphas_cumprod_t ==
            extract(sqrt_one_minus_alphas_cumprod, t, ShapeOf(x))
        sqrt_recip_alphas_t == extract(sqrt_recip_alphas, t, ShapeOf(x))
    IN  BMul(sqrt_recip_alphas_t,
             TSub(x, BDiv(BMul(betas_t, denoise_model(w, x, t)),
                          sqrt_one_minus_alphas_cumprod_t)))

\* p_sample without the factor sqrt_recip_alphas_t
p_sample_unscaled(w, x, t, t_index, draw) ==
    LET betas_t == extract(betas, t, ShapeOf(x))
        sqrt_one_minus_alphas_cumprod_t ==
            extract(sqrt_one_minus_alphas_cumprod, t, ShapeOf(x))
        mean == TSub(x, BDiv(BMul(betas_t, denoise_model(w, x, t)),
                             sqrt_one_minus_alphas_cumprod_t))
    IN  IF t_index = 0 THEN [out |-> mean, noise |-> None]
        ELSE [out |-> TAdd(mean, BMul(SqrtVec(extract(posterior_variance, t, ShapeOf(x))), draw)),
              noise |-> draw]

\* p_sample with "if t_index == 1"
p_sample_off_by_one(w, x, t, t_index, draw) ==
    IF t_index = 1 THEN [out |-> model_mean(w, x, t), noise |-> None]
    ELSE [out |-> TAdd(model_mean(w, x, t),
                       BMul(SqrtVec(extract(posterior_variance, t, ShapeOf(x))), draw)),
          noise |-> draw]

\* p_sample(model, x, t, t_index); draw is what torch.randn_like returns when
\* called.  The result carries the noise the call drew (None at t_index = 0).
p_sample(w, x, t, t_index, draw) ==
    IF t_index = 0 THEN [out |-> model_mean(w, x, t), noise |-> None]
    ELSE LET posterior_variance_t == extract(posterior_variance, t, ShapeOf(x))
             noise == draw
         IN  [out |-> TAdd(model_mean(w, x, t), BMul(SqrtVec(posterior_variance_t), noise)),
              noise |-> noise]

\* LoopIndices without reversed()
LoopIndicesForward(T) == [k \in 1..T |-> k - 1]

\* LoopIndices over reversed(range(1, timesteps + 1))
LoopIndicesFromT(T) == [k \in 1..T |-> T - k + 1]

\* reversed(range(timesteps)): the k-th iteration's index
LoopIndices(T) == [k \in 1..T |-> T - k]

(***************************************************************************)
(* num_to_groups (cell 25)                                                 *)
(***************************************************************************)
\* [v] * n
Repeat(v, n) == [i \in 1..n |-> v]

\* num_to_groups with "if remainder >= 0"
num_to_groups_always_append(num, divisor) ==
    LET groups == num \div divisor
        remainder == num % divisor
    IN  Append(Repeat(divisor, groups), remainder)

num_to_groups(num, divisor) ==
    LET groups == num \div divisor
        remainder == num % divisor
        arr == Repeat(divisor, groups)
    IN  IF remainder > 0 THEN Append(arr, remainder) ELSE arr

(***************************************************************************)
(* The training run (cells 25, 26, 28)                                     *)
(***************************************************************************)
\* no training run is in progress
TrainIdle ==
    /\ epochs = 0 /\ save_and_sample_every = 0 /\ dataloader = 0
    /\ epoch = 0 /\ step = 0 /\ batch = None /\ batch_size = 0 /\ t_batch = None
    /\ loss = None /\ grads = 0 /\ files = <<>> /\ trace = <<>> /\ opt_steps = 0

\* Adam(model.parameters(), lr=1e-3)
lr == ONE \div 1000

\* d/dw of the smooth-L1 loss of the prediction w * u against the noise n,
\* u = x_noisy + t / 10: what loss.backward() adds to the weight's gradient
LossGradient(w, x_noisy, tt, n) ==
    LET p == Flatten(denoise_model(w, x_noisy, tt))
        u == Flatten(denoise_model(ONE, x_noisy, tt))
        e == Flatten(n)
    IN  Mean([j \in 1..Len(p) |->
            LET d == p[j] - e[j]
            IN  IF Abs(d) < ONE THEN Mul(d, u[j]) ELSE Sgn(d) * u[j]])

\* loss = p_losses(model, batch, t, loss_type='huber'): the value, with the
\* gradient its graph yields on backward()
TrainingLoss(w, x_start, tt, draw) ==
    [value |-> p_losses(w, x_start, tt, None, "huber", draw).loss,
     grad |-> LossGradient(w, q_sample(x_start, tt, None, draw), tt, draw)]

\* optimizer.step().  Adam moves a weight by about lr against the sign of
\* its gradient; its moment estimates are not modelled.
AdamStep(w, g) == IF g > 0 THEN w - lr ELSE IF g < 0 THEN w + lr ELSE w

\* the statements of the loop body, in program order
Body == <<"zero_grad", "randint", "p_losses", "backward", "step", "save_and_sample">>

\* StmtAfter with optimizer.step() before loss.backward()
StmtAfterStepFirst(stmt) ==
    CASE stmt = "zero_grad" -> "randint"
      [] stmt = "randint" -> "p_losses"
      [] stmt = "p_losses" -> "step"
      [] stmt = "step" -> "backward"
      [] stmt = "backward" -> "save_and_sample"
      [] OTHER -> "for"

\* the statement that follows stmt in the loop body; after the last one the
\* for statement fetches the next batch
StmtAfter(stmt) ==
    CASE stmt = "zero_grad" -> "randint"
      [] stmt = "randint" -> "p_losses"
      [] stmt = "p_losses" -> "backward"
      [] stmt = "backward" -> "step"
      [] stmt = "step" -> "save_and_sample"
      [] OTHER -> "for"

\* sample(model, image_size, n, num_channels) returns p_sample_loop's imgs: a
\* Python list of timesteps numpy arrays of n images each (p_sample_loop
\* itself is specified step by step in SpecSample)
sample(n) == [kind |-> "list", len |-> timesteps, rows |-> n]

\* torch.cat(tensors, dim=0) raises TypeError unless every element of
\* tensors is a Tensor
torch_cat(tensors) ==
    IF \A k \in 1..Len(tensors) : tensors[k].kind = "Tensor"
    THEN [kind |-> "Tensor", raised |-> ""]
    ELSE [kind |-> None, raised |-> "TypeError"]

\* step != 0 and step % save_and_sample_every == 0
ExportDue(s, every) == s # 0 /\ s % every = 0

\* results_folder / f'sample-{milestone}.png'
SampleFile(milestone) == <<"sample-", milestone, ".png">>

\* the body of the "save generated images" if statement: the raised error, or
\* the file written
save_and_sample(s, every, bsize) ==
    LET milestone == s \div every
        batches == num_to_groups(4, bsize)
        all_images_list == [k \in 1..Len(batches) |-> sample(batches[k])]
        all_images == torch_cat(all_images_list)
    IN  IF all_images.raised # "" THEN [raised |-> all_images.raised, file |-> None]
        ELSE [raised |-> "", file |-> SampleFile(milestone)]

(***************************************************************************)
(* The shapes of Unet (cells 2, 12).  A shape is <<batch, channels, height, *)
(* width>>; a layer is a record naming its kind and its channel counts.    *)
(***************************************************************************)
\* no forward pass is running
UnetIdle == net = None /\ xshape = None /\ rshape = None /\ h = <<>> /\ ind = 0

\* the outcome of a layer applied to a tensor it cannot take
ShapeError == <<"error">>

\* nn.Conv2d(cin, cout, 1) and nn.Conv2d(cin, cout, 3, padding=1)
Conv2d(cin, cout) == [kind |-> "conv", cin |-> cin, cout |-> cout]
\* ResnetBlock(cin, cout): its first convolution takes cin channels
ResnetBlock(cin, cout) == [kind |-> "resnet", cin |-> cin, cout |-> cout]
\* Residual(PreNorm(dim, Attention(dim)))
Attention(dim) == [kind |-> "attn", cin |-> dim, cout |-> dim]
\* Downsample(dim, dim_out): Rearrange (h 2) (w 2), then Conv2d(dim * 4, dim_out, 1)
Downsample(dim, dim_out) == [kind |-> "down", cin |-> dim, cout |-> dim_out]
\* Upsample(dim, dim_out): nn.Upsample(scale_factor=2), then Conv2d(dim, dim_out, 3)
Upsample(dim, dim_out) == [kind |-> "up", cin |-> dim, cout |-> dim_out]

\* UpsampleShape with scale_factor=1
UpsampleShapeSame(s) == <<s[1], s[2], s[3], s[4]>>

\* nn.Upsample(scale_factor=2, mode='nearest')
UpsampleShape(s) == <<s[1], s[2], 2 * s[3], 2 * s[4]>>

\* Rearrange('b c (h p1) (w p2) -> b (c p1 p2) h w', p1=2, p2=2): an odd
\* height or width cannot be split
RearrangeShape(s) ==
    IF s[3] % 2 # 0 \/ s[4] % 2 # 0 THEN ShapeError
    ELSE <<s[1], 4 * s[2], s[3] \div 2, s[4] \div 2>>

\* a convolution over cin channels applied to a tensor of shape s
ConvShape(cin, cout, s) ==
    IF s = ShapeError \/ s[2] # cin THEN ShapeError ELSE <<s[1], cout, s[3], s[4]>>

\* layer(x): the shape of the result, or ShapeError
Apply(layer, s) ==
    IF s = ShapeError THEN ShapeError
    ELSE CASE layer.kind = "down" ->
                ConvShape(4 * layer.cin, layer.cout, RearrangeShape(s))
           [] layer.kind = "up" ->
                ConvShape(layer.cin, layer.cout, UpsampleShape(s))
           [] OTHER -> ConvShape(layer.cin, layer.cout, s)

\* torch.cat((x, y), dim=1): all sizes but the channels must agree
Cat(s, y) ==
    IF s = ShapeError \/ y = ShapeError THEN ShapeError
    ELSE IF s[1] # y[1] \/ s[3] # y[3] \/ s[4] # y[4] THEN ShapeError
    ELSE <<s[1], s[2] + y[2], s[3], s[4]>>

\* dims = [init_dim, *map(lambda m: dim * m, dim_mults)]
Dims(init_dim, dim, dim_mults) ==
    <<init_dim>> \o [k \in 1..Len(dim_mults) |-> dim * dim_mults[k]]

\* in_out = list(zip(dims[:-1], dims[1:]))
InOut(dims) == [k \in 1..(Len(dims) - 1) |-> <<dims[k], dims[k + 1]>>]

\* Reversed leaving the order as it is: the decoder built from in_out
NotReversed(q) == [k \in 1..Len(q) |-> q[k]]

\* reversed(in_out)
Reversed(q) == [k \in 1..Len(q) |-> q[Len(q) + 1 - k]]

\* Unet.__init__ with init_dim and out_dim left at None
Unet(dim, dim_mults, channels, self_condition) ==
    LET input_channels == channels * (IF self_condition THEN 2 ELSE 1)
        init_dim == dim
        dims == Dims(init_dim, dim, dim_mults)
        in_out == InOut(dims)
        num_resolutions == Len(in_out)
        mid_dim == dims[Len(dims)]
        out_dim == channels
    IN  [channels |-> channels,
         self_condition |-> self_condition,
         init_conv |-> Conv2d(input_channels, init_dim),
         downs |-> [k \in 1..num_resolutions |->
            LET dim_in == in_out[k][1]
                dim_out == in_out[k][2]
                is_last == (k - 1) >= (num_resolutions - 1)
            IN  <<ResnetBlock(dim_in, dim_in), ResnetBlock(dim_in, dim_in),
                  Attention(dim_in),
                  IF ~is_last THEN Downsample(dim_in, dim_out)
                  ELSE Conv2d(dim_in, dim_out)>>],
         mid_block1 |-> ResnetBlock(mid_dim, mid_dim),
         mid_attn |-> Attention(mid_dim),
         mid_block2 |-> ResnetBlock(mid_dim, mid_dim),
         ups |-> [k \in 1..num_resolutions |->
            LET dim_in == Reversed(in_out)[k][1]
                dim_out == Reversed(in_out)[k][2]
                is_last == (k - 1) = (Len(in_out) - 1)
            IN  <<ResnetBlock(dim_out + dim_in, dim_out),
                  ResnetBlock(dim_out + dim_in, dim_out),
                  Attention(dim_out),
                  IF ~is_last THEN Upsample(dim_out, dim_in)
                  ELSE Conv2d(dim_out, dim_in)>>],
         out_dim |-> out_dim,
         final_res_block |-> ResnetBlock(dim * 2, dim),
         final_conv |-> Conv2d(dim, out_dim)]

(***************************************************************************)
(* Specification of the schedule cells: timesteps is set (cell 15), then   *)
(* cell 16 computes the vectors.                                           *)
(***************************************************************************)
MaxScheduleT == 60

InitSchedule ==
    /\ timesteps \in 1..MaxScheduleT
    /\ betas = <<>> /\ alphas = <<>> /\ alphas_cumprod = <<>>
    /\ alphas_cumprod_prev = <<>> /\ sqrt_recip_alphas = <<>>
    /\ sqrt_alphas_cumprod = <<>> /\ sqrt_one_minus_alphas_cumprod = <<>>
    /\ posterior_variance = <<>>
    /\ pc = "cell16"
    /\ args = None /\ ret = None /\ rand = None
    /\ params = 0 /\ SampleIdle /\ TrainIdle /\ UnetIdle

DefineSchedule ==
    /\ pc = "cell16"
    /\ LET s == Schedule(timesteps)
       IN  /\ betas' = s.betas
           /\ alphas' = s.alphas
           /\ alphas_cumprod' = s.alphas_cumprod
           /\ alphas_cumprod_prev' = s.alphas_cumprod_prev
           /\ sqrt_recip_alphas' = s.sqrt_recip_alphas
           /\ sqrt_alphas_cumprod' = s.sqrt_alphas_cumprod
           /\ sqrt_one_minus_alphas_cumprod' = s.sqrt_one_minus_alphas_cumprod
           /\ posterior_variance' = s.posterior_variance
    /\ pc' = "ready"
    /\ UNCHANGED <<unetVars, timesteps, callVars, params, sampVars, cfgVars, trainVars>>

NextSchedule == DefineSchedule

SpecSchedule == InitSchedule /\ [][NextSchedule]_vars

MaxT == 3
Shapes == {<<1, 1>>, <<2, 1>>, <<1, 2>>}

InitQSample ==
    /\ \E T \in 1..MaxT : ScheduleDefined(T)
    /\ pc = "call"
    /\ \E shape \in Shapes :
         args \in [x_start : Tensors(shape, PixelVals),
                   t : Timesteps(shape[1], timesteps),
                   noise : {None} \cup Tensors(shape, NoiseVals)]
    /\ ret = None /\ rand = None
    /\ params = 0 /\ SampleIdle /\ TrainIdle /\ UnetIdle

CallQSample ==
    /\ pc = "call"
    /\ \E draw \in Tensors(ShapeOf(args.x_start), NoiseVals) :
         /\ ret' = q_sample(args.x_start, args.t, args.noise, draw)
         /\ rand' = IF DrawsNoise(args.noise) THEN draw ELSE None
    /\ pc' = "returned"
    /\ UNCHANGED <<unetVars, schedVars, args, params, sampVars, cfgVars, trainVars>>

NextQSample == CallQSample

SpecQSample == InitQSample /\ [][NextQSample]_vars

\* the noise the call used: the one supplied, else the one it drew
C4_Eps == IF args.noise = None THEN rand ELSE args.noise

\* C4: q_sample returns sqrt(alpha_bar_t) * x0 + sqrt(1 - alpha_bar_t) * eps
\* elementwise, with the shape of x0; a supplied noise, all-zero included, is
\* used as given (nothing is drawn), and with eps = 0 the result is
\* sqrt(alpha_bar_t) * x0 exactly.
C4_QSampleFormula ==
    pc = "returned" =>
        /\ ShapeOf(ret) = ShapeOf(args.x_start)
        /\ (args.noise # None => rand = None)
        /\ \A b \in 1..Len(ret) : \A k \in 1..Len(ret[b]) :
              /\ ret[b][k] =
                    Mul(Sqrt(alphas_cumprod[args.t[b] + 1]), args.x_start[b][k])
                    + Mul(Sqrt(ONE - alphas_cumprod[args.t[b] + 1]), C4_Eps[b][k])
              /\ (args.noise # None /\ args.noise[b][k] = 0 =>
                    ret[b][k] =
                        Mul(Sqrt(alphas_cumprod[args.t[b] + 1]), args.x_start[b][k]))

\* a call with a supplied all-zero noise on a batch of two rows at two
\* different timesteps has returned
C4_Witness ==
    /\ pc = "returned"
    /\ args.noise # None
    /\ Len(args.x_start) = 2
    /\ args.t[1] # args.t[2]
    /\ \A b \in 1..Len(args.noise) : \A k \in 1..Len(args.noise[b]) : args.noise[b][k] = 0
    /\ ret[1][1] = Mul(sqrt_alphas_cumprod[args.t[1] + 1], args.x_start[1][1])

(***************************************************************************)
(* Specification of p_losses: a call with arguments drawn from small sets. *)
(***************************************************************************)
LossShapes == {<<1, 1>>, <<2, 1>>}
LossTypes == {"l1", "l2", "huber", "L1", "mse"}
Weights == {0, ONE \div 2, -ONE}

InitLosses ==
    /\ \E T \in 1..MaxT : ScheduleDefined(T)
    /\ pc = "call"
    /\ \E shape \in LossShapes :
         args \in [w : Weights,
                   x_start : Tensors(shape, PixelVals),
                   t : Timesteps(shape[1], timesteps),
                   noise : {None} \cup Tensors(shape, NoiseVals),
                   loss_type : LossTypes]
    /\ ret = None /\ rand = None
    /\ params = 0 /\ SampleIdle /\ TrainIdle /\ UnetIdle

CallPLosses ==
    /\ pc = "call"
    /\ \E draw \in Tensors(ShapeOf(args.x_start), NoiseVals) :
         /\ ret' = p_losses(args.w, args.x_start, args.t, args.noise,
                            args.loss_type, draw)
         /\ rand' = IF DrawsNoise(args.noise) THEN draw ELSE None
    /\ pc' = "returned"
    /\ UNCHANGED <<unetVars, schedVars, args, params, sampVars, cfgVars, trainVars>>

NextLosses == CallPLosses

SpecLosses == InitLosses /\ [][NextLosses]_vars

\* the injected noise and the network's prediction on the noised input
C8_Noise == IF args.noise = None THEN rand ELSE args.noise
C8_Predicted ==
    denoise_model(args.w, q_sample(args.x_start, args.t, C8_Noise, C8_Noise), args.t)

\* C8: p_losses raises NotImplementedError, and returns no loss, exactly when
\* loss_type is not one of 'l1', 'l2', 'huber'; for 'l1' it returns the L1
\* loss, for 'l2' the MSE loss and for 'huber' the smooth-L1 loss between the
\* predicted and the injected noise, without raising; there is no other
\* outcome.
C8_LossOutcome ==
    pc = "returned" =>
        /\ ret.raised \in {"", "NotImplementedError"}
        /\ (ret.raised = "NotImplementedError") <=> (args.loss_type \notin {"l1", "l2", "huber"})
        /\ (ret.raised = "NotImplementedError") <=> (ret.loss = None)
        /\ args.loss_type = "l1" => ret.loss = l1_loss(C8_Predicted, C8_Noise)
        /\ args.loss_type = "l2" => ret.loss = mse_loss(C8_Predicted, C8_Noise)
        /\ args.loss_type = "huber" => ret.loss = smooth_l1_loss(C8_Predicted, C8_Noise)

\* a call with an unknown selector has raised, and the three losses differ on
\* the same arguments
C8_Witness ==
    /\ pc = "returned"
    /\ args.loss_type = "mse"
    /\ ret.raised = "NotImplementedError"
    /\ ret.loss = None
    /\ l1_loss(C8_Predicted, C8_Noise) # mse_loss(C8_Predicted, C8_Noise)
    /\ mse_loss(C8_Predicted, C8_Noise) # smooth_l1_loss(C8_Predicted, C8_Noise)

(***************************************************************************)
(* Specification of num_to_groups: a call with num and divisor drawn.      *)
(***************************************************************************)
MaxNum == 12
MaxDivisor == 6

InitGroups ==
    /\ \E T \in 1..1 : ScheduleDefined(T)
    /\ pc = "call"
    /\ args \in [num : 0..MaxNum, divisor : 1..MaxDivisor]
    /\ ret = None /\ rand = None
    /\ params = 0 /\ SampleIdle /\ TrainIdle /\ UnetIdle

CallNumToGroups ==
    /\ pc = "call"
    /\ ret' = num_to_groups(args.num, args.divisor)
    /\ pc' = "returned"
    /\ UNCHANGED <<unetVars, schedVars, args, rand, params, sampVars, cfgVars, trainVars>>

NextGroups == CallNumToGroups

SpecGroups == InitGroups /\ [][NextGroups]_vars

\* C7: num_to_groups(num, divisor) is num // divisor entries equal to
\* divisor followed by one entry num % divisor iff that remainder is
\* positive: the entries sum to num, each is in 1..divisor, only the last can
\* be smaller than divisor, and num_to_groups(10, 4) = [4, 4, 2].
C7_NumToGroups ==
    pc = "returned" =>
        LET q == args.num \div args.divisor
            r == args.num % args.divisor
        IN  /\ Len(ret) = q + (IF r > 0 THEN 1 ELSE 0)
            /\ \A i \in 1..q : ret[i] = args.divisor
            /\ r > 0 => ret[q + 1] = r
            /\ SumSeq(ret) = args.num
            /\ \A i \in 1..Len(ret) : ret[i] \in 1..args.divisor
            /\ \A i \in 1..(Len(ret) - 1) : ret[i] = args.divisor
            /\ (args.num = 10 /\ args.divisor = 4 => ret = <<4, 4, 2>>)

\* num_to_groups(10, 4) has returned [4, 4, 2]
C7_Witness ==
    /\ pc = "returned"
    /\ args.num = 10 /\ args.divisor = 4
    /\ ret = <<4, 4, 2>>

(***************************************************************************)
(* Specification of p_sample_loop: one run, the shape and the network      *)
(* drawn, one step of the for loop per action.                             *)
(***************************************************************************)
MaxSampleT == 4
SampleShapes == {<<1, 1>>, <<2, 1>>}
SampleNoise == {-ONE, (3 * ONE) \div 2}

InitSample ==
    /\ \E T \in 1..MaxSampleT : ScheduleDefined(T)
    /\ pc = "p_sample_loop"
    /\ args \in [shape : SampleShapes]
    /\ ret = None /\ rand = None
    /\ params \in Weights
    /\ SampleIdle /\ TrainIdle /\ UnetIdle

\* img = torch.randn(shape); imgs = []; the loop starts at its first index
LoopStart ==
    /\ pc = "p_sample_loop"
    /\ \E draw \in Tensors(args.shape, SampleNoise) :
         /\ img' = draw
         /\ rand' = draw
    /\ imgs' = <<>>
    /\ iter' = 1
    /\ calls' = <<>>
    /\ pc' = "for i"
    /\ UNCHANGED <<unetVars, schedVars, args, ret, params, cfgVars, trainVars>>

\* LoopStep with extract handing out a view of the vector and p_sample taking
\* the square root in place (posterior_variance_t.sqrt_()), which writes the
\* roots into posterior_variance
LoopStepSqrtInPlace ==
    /\ pc = "for i"
    /\ iter <= timesteps
    /\ LET t_index == LoopIndices(timesteps)[iter]
           t == Full(args.shape[1], t_index)
       IN  /\ \E draw \in Tensors(args.shape, SampleNoise) :
                LET r == p_sample(params, img, t, t_index, draw)
                IN  /\ img' = r.out
                    /\ rand' = r.noise
                    /\ imgs' = Append(imgs, r.out)
                    /\ calls' = Append(calls, [t_index |-> t_index, t |-> t, x |-> img,
                                               out |-> r.out, noise |-> r.noise])
           /\ posterior_variance' = IF t_index # 0 THEN SqrtVec(posterior_variance)
                                    ELSE posterior_variance
    /\ iter' = iter + 1
    /\ UNCHANGED <<unetVars, timesteps, betas, alphas, alphas_cumprod,
                   alphas_cumprod_prev, sqrt_recip_alphas, sqrt_alphas_cumprod,
                   sqrt_one_minus_alphas_cumprod, pc, args, ret, params, cfgVars,
                   trainVars>>

\* one iteration: img = p_sample(model, img, full((b,), i), i); imgs.append(img)
LoopStep ==
    /\ pc = "for i"
    /\ iter <= timesteps
    /\ LET t_index == LoopIndices(timesteps)[iter]
           t == Full(args.shape[1], t_index)
       IN  \E draw \in Tensors(args.shape, SampleNoise) :
             LET r == p_sample(params, img, t, t_index, draw)
             IN  /\ img' = r.out
                 /\ rand' = r.noise
                 /\ imgs' = Append(imgs, r.out)
                 /\ calls' = Append(calls, [t_index |-> t_index, t |-> t, x |-> img,
                                            out |-> r.out, noise |-> r.noise])
    /\ iter' = iter + 1
    /\ UNCHANGED <<unetVars, schedVars, pc, args, ret, params, cfgVars, trainVars>>

\* the loop is exhausted: return imgs
LoopReturn ==
    /\ pc = "for i"
    /\ iter > timesteps
    /\ ret' = imgs
    /\ pc' = "returned"
    /\ UNCHANGED <<unetVars, schedVars, args, rand, params, sampVars, cfgVars, trainVars>>

NextSample == LoopStart \/ LoopStep \/ LoopReturn

SpecSample == InitSample /\ [][NextSample]_vars

\* C1: p_sample_loop starts from a freshly drawn noise image and calls
\* p_sample exactly T times, with t = T-1, T-2, ..., 0 in this order, each
\* step taking the previous step's output; it then returns (while the loop
\* runs, the iterations left, timesteps + 1 - iter, are never negative and
\* every step uses one up), and the last image it recorded is the output of
\* the step at t = 0.
C1_LoopOverTimesteps ==
    /\ pc = "p_sample_loop" => calls = <<>>
    /\ Len(calls) <= timesteps
    /\ Len(imgs) = Len(calls)
    /\ \A k \in 1..Len(calls) :
          /\ calls[k].t_index = timesteps - k
          /\ calls[k].t = Full(args.shape[1], timesteps - k)
          /\ calls[k].x = (IF k = 1 THEN calls[1].x ELSE calls[k - 1].out)
          /\ imgs[k] = calls[k].out
    /\ Len(calls) >= 1 => calls[1].x \in Tensors(args.shape, SampleNoise)
    /\ pc = "for i" => iter = Len(calls) + 1
    /\ pc = "for i" /\ Len(calls) = 0 => img = rand
    /\ pc = "returned" =>
          /\ Len(calls) = timesteps
          /\ ret = imgs
          /\ calls[timesteps].t_index = 0
          /\ ret[Len(ret)] = calls[timesteps].out
    /\ pc \in {"p_sample_loop", "for i", "returned"}
    /\ pc = "for i" => iter \in 1..(timesteps + 1)

\* a run of four steps has returned
C1_Witness ==
    /\ pc = "returned"
    /\ timesteps = 4
    /\ Len(ret) = 4
    /\ [k \in 1..4 |-> calls[k].t_index] = <<3, 2, 1, 0>>
    /\ calls[4].x = ret[3]

\* C2: for T = 1 and the zero-predicting network, p_sample_loop returns the
\* image it started from multiplied by sqrt(1 / alpha_0) and nothing else: no
\* noise is drawn in the step.
C2_SingleStepZeroNetwork ==
    pc = "returned" /\ timesteps = 1 /\ params = 0 =>
        /\ Len(ret) = 1
        /\ calls[1].noise = None
        /\ \A b \in 1..Len(ret[1]) : \A k \in 1..Len(ret[1][b]) :
              ret[1][b][k] = Mul(Sqrt(Div(ONE, ONE - betas[1])), calls[1].x[b][k])

\* such a run has returned an image that differs from the one it started from
C2_Witness ==
    /\ pc = "returned" /\ timesteps = 1 /\ params = 0
    /\ ret[1] # calls[1].x
    /\ ret[1][1][1] = Mul(sqrt_recip_alphas[1], calls[1].x[1][1])

\* the posterior mean of the k-th call, from the schedule
C3_Mean(c, b, k) ==
    Mul(sqrt_recip_alphas[c.t_index + 1],
        c.x[b][k] - Div(Mul(betas[c.t_index + 1],
                            denoise_model(params, c.x, c.t)[b][k]),
                        sqrt_one_minus_alphas_cumprod[c.t_index + 1]))

\* C3: in every reverse step, noise scaled by sqrt(posterior_variance_t) is
\* added to the posterior mean iff t # 0: for t in 1..T-1 the result is
\* mean + sqrt(posterior_variance_t) * noise, and at t = 0 it is the mean, with
\* no noise drawn.
C3_NoiseIffNotLastStep ==
    \A n \in 1..Len(calls) :
        LET c == calls[n]
        IN  /\ (c.noise # None) <=> (c.t_index # 0)
            /\ \A b \in 1..Len(c.out) : \A k \in 1..Len(c.out[b]) :
                  c.out[b][k] =
                     IF c.t_index # 0
                     THEN C3_Mean(c, b, k)
                          + Mul(Sqrt(posterior_variance[c.t_index + 1]), c.noise[b][k])
                     ELSE C3_Mean(c, b, k)

\* a run has made a step at t >= 1 whose noise moved the result off the mean,
\* and the step at t = 0
C3_Witness ==
    /\ Len(calls) >= 2
    /\ calls[Len(calls)].t_index = 0
    /\ calls[1].noise # None
    /\ calls[1].out[1][1] # C3_Mean(calls[1], 1, 1)

(***************************************************************************)
(* Specification of the training run: the two nested for loops of cell 28, *)
(* one statement of the loop body per action.  The number of epochs, the    *)
(* export period, the number of batches the dataloader yields per epoch    *)
(* and the initial weight are drawn.  The body's temporaries (batch, t,    *)
(* loss) are dead once the body has run and are cleared when the next      *)
(* batch is fetched.                                                       *)
(***************************************************************************)
MaxEpochs == 2
MaxBatches == 3
MaxEvery == 2
MaxTrainT == 2
TrainBatches == Tensors(<<1, 1>>, {-ONE, ONE}) \cup {<<<<ONE>>, <<-ONE \div 2>>>>}
TrainNoise == {0, ONE}

InitTrain ==
    /\ \E T \in 1..MaxTrainT : ScheduleDefined(T)
    /\ pc = "for"
    /\ args = None /\ ret = None /\ rand = None
    /\ params \in {0, ONE \div 2}
    /\ SampleIdle
    /\ epochs \in 1..MaxEpochs
    /\ save_and_sample_every \in 1..MaxEvery
    /\ dataloader \in 1..MaxBatches
    /\ epoch = 0 /\ step = -1 /\ batch = None /\ batch_size = 0 /\ t_batch = None
    /\ loss = None /\ grads = 0 /\ files = <<>> /\ trace = <<>> /\ opt_steps = 0
    /\ UnetIdle

\* for step, batch in enumerate(dataloader): the next batch of this epoch
\* (step is -1 before the epoch's first batch)
FetchBatch ==
    /\ pc = "for"
    /\ step + 1 < dataloader
    /\ step' = step + 1
    /\ batch' \in TrainBatches
    /\ t_batch' = None /\ loss' = None
    /\ trace' = <<>>
    /\ pc' = Body[1]
    /\ UNCHANGED <<unetVars, schedVars, callVars, params, sampVars, cfgVars, epoch,
                   batch_size, grads, files, opt_steps>>

\* the dataloader is exhausted: for epoch in range(epochs) goes on or ends
EndEpoch ==
    /\ pc = "for"
    /\ step + 1 = dataloader
    /\ IF epoch + 1 < epochs
       THEN /\ epoch' = epoch + 1
            /\ step' = -1
            /\ pc' = "for"
       ELSE /\ pc' = "done"
            /\ UNCHANGED <<epoch, step>>
    /\ UNCHANGED <<unetVars, schedVars, callVars, params, sampVars, cfgVars, batch,
                   batch_size, t_batch, loss, grads, files, trace, opt_steps>>

\* optimizer.zero_grad()
ZeroGrad ==
    /\ pc = "zero_grad"
    /\ grads' = 0
    /\ trace' = Append(trace, "zero_grad")
    /\ pc' = StmtAfter("zero_grad")
    /\ UNCHANGED <<unetVars, schedVars, callVars, params, sampVars, cfgVars, epoch, step,
                   batch, batch_size, t_batch, loss, files, opt_steps>>

\* batch_size = batch.shape[0]; t = torch.randint(0, timesteps, (batch_size,))
SampleTimesteps ==
    /\ pc = "randint"
    /\ batch_size' = Len(batch)
    /\ t_batch' \in Timesteps(Len(batch), timesteps)
    /\ trace' = Append(trace, "randint")
    /\ pc' = StmtAfter("randint")
    /\ UNCHANGED <<unetVars, schedVars, callVars, params, sampVars, cfgVars, epoch, step,
                   batch, loss, grads, files, opt_steps>>

\* loss = p_losses(model, batch, t, loss_type='huber')
ComputeLoss ==
    /\ pc = "p_losses"
    /\ \E draw \in Tensors(ShapeOf(batch), TrainNoise) :
         loss' = TrainingLoss(params, batch, t_batch, draw)
    /\ trace' = Append(trace, "p_losses")
    /\ pc' = StmtAfter("p_losses")
    /\ UNCHANGED <<unetVars, schedVars, callVars, params, sampVars, cfgVars, epoch, step,
                   batch, batch_size, t_batch, grads, files, opt_steps>>

\* loss.backward()
Backward ==
    /\ pc = "backward"
    /\ grads' = grads + loss.grad
    /\ trace' = Append(trace, "backward")
    /\ pc' = StmtAfter("backward")
    /\ UNCHANGED <<unetVars, schedVars, callVars, params, sampVars, cfgVars, epoch, step,
                   batch, batch_size, t_batch, loss, files, opt_steps>>

\* optimizer.step()
OptimizerStep ==
    /\ pc = "step"
    /\ params' = AdamStep(params, grads)
    /\ opt_steps' = opt_steps + 1
    /\ trace' = Append(trace, "step")
    /\ pc' = StmtAfter("step")
    /\ UNCHANGED <<unetVars, schedVars, callVars, sampVars, cfgVars, epoch, step, batch,
                   batch_size, t_batch, loss, grads, files>>

\* if step != 0 and step % save_and_sample_every == 0: sample and save_image
SaveAndSample ==
    /\ pc = "save_and_sample"
    /\ trace' = Append(trace, "save_and_sample")
    /\ IF ExportDue(step, save_and_sample_every)
       THEN LET r == save_and_sample(step, save_and_sample_every, batch_size)
            IN  IF r.raised # ""
                THEN /\ pc' = "error"
                     /\ ret' = r.raised
                     /\ UNCHANGED files
                ELSE /\ pc' = StmtAfter("save_and_sample")
                     /\ files' = Append(files, [name |-> r.file, epoch |-> epoch,
                                                step |-> step])
                     /\ UNCHANGED ret
       ELSE /\ pc' = StmtAfter("save_and_sample")
            /\ UNCHANGED <<files, ret>>
    /\ UNCHANGED <<unetVars, schedVars, args, rand, params, sampVars, cfgVars, epoch, step,
                   batch, batch_size, t_batch, loss, grads, opt_steps>>

NextTrain ==
    \/ FetchBatch \/ EndEpoch \/ ZeroGrad \/ SampleTimesteps \/ ComputeLoss
    \/ Backward \/ OptimizerStep \/ SaveAndSample

SpecTrain == InitTrain /\ [][NextTrain]_vars

\* the state of a batch and the steps of the loop, for C9
C9_Order ==
    /\ Len(trace) <= Len(Body)
    /\ \A k \in 1..Len(trace) : trace[k] = Body[k]
    /\ pc \notin {"for", "done", "error"} => pc = Body[Len(trace) + 1]
    /\ pc = "error" => trace = Body
    /\ opt_steps =
          IF step = -1 THEN epoch * dataloader
          ELSE epoch * dataloader + step + (IF Len(trace) >= 5 THEN 1 ELSE 0)

C9_Step ==
    /\ params' # params => pc = "step"
    /\ opt_steps' # opt_steps => pc = "step" /\ opt_steps' = opt_steps + 1
    /\ pc = "for" /\ pc' = Body[1] /\ step >= 0 => trace = Body

\* C9: batches are processed one after the other and each runs, in this
\* order, zero_grad, the timestep draw, p_losses, backward, optimizer step
\* (then the export check); there is exactly one optimizer step per batch,
\* the next batch is not fetched before it, and the parameters change in no
\* statement but the optimizer step.
C9_TrainingOrder == [](C9_Order) /\ [][C9_Step]_vars

\* a run of two epochs has ended after four batches and four optimizer steps
C9_Witness ==
    /\ pc = "done"
    /\ epoch = 1
    /\ opt_steps = epochs * dataloader
    /\ opt_steps >= 4
    /\ params # 0 /\ params # ONE \div 2

\* C10: after the optimizer step of every batch whose step is non-zero and a
\* multiple of save_and_sample_every, and of no other batch, a file
\* sample-<step // save_and_sample_every>.png is written, and no two exports
\* of a run have the same file name.
C10_ExportPerMilestone ==
    /\ \A k \in 1..Len(files) :
          /\ ExportDue(files[k].step, save_and_sample_every)
          /\ files[k].name = SampleFile(files[k].step \div save_and_sample_every)
    /\ \A j, k \in 1..Len(files) : j # k => files[j].name # files[k].name
    /\ trace = Body /\ step >= 0 /\ ExportDue(step, save_and_sample_every) =>
          /\ Len(files) >= 1
          /\ files[Len(files)].epoch = epoch
          /\ files[Len(files)].step = step

(***************************************************************************)
(* Specification of Unet.forward: a network built for a drawn dim,         *)
(* dim_mults, channels and self_condition is applied to an image of a      *)
(* drawn height and width; one block of statements per action.  A layer    *)
(* that cannot take its input ends the pass in "error".                    *)
(***************************************************************************)
MaxDepth == 3
MaxSize == 8
UnetDims == {4, 8}
Mults == {1, 2}
Channels == {1, 3}
UnetBatches == {1, 2}

DimMults == UNION {[1..n -> Mults] : n \in 0..MaxDepth}

InitUnet ==
    /\ \E T \in 1..1 : ScheduleDefined(T)
    /\ pc = "forward"
    /\ args \in [dim : UnetDims, dim_mults : DimMults, channels : Channels,
                 self_condition : BOOLEAN, batch : UnetBatches,
                 height : 1..MaxSize, width : 1..MaxSize]
    /\ ret = None /\ rand = None
    /\ params = 0 /\ SampleIdle /\ TrainIdle
    /\ net = Unet(args.dim, args.dim_mults, args.channels, args.self_condition)
    /\ xshape = <<args.batch, args.channels, args.height, args.width>>
    /\ rshape = None /\ h = <<>> /\ ind = 0

\* the forward pass goes on at position next with x of shape s, or stops
GoOn(s, next) ==
    IF s = ShapeError
    THEN pc' = "error" /\ xshape' = ShapeError
    ELSE pc' = next /\ xshape' = s

\* where the pass continues once stage ind of a loop over n stages is done
AfterStage(n, again, after) == IF ind + 1 < n THEN again ELSE after

\* the self-conditioning concatenation, init_conv, r = x.clone(), h = []
Enter ==
    /\ pc = "forward"
    /\ LET x0 == IF net.self_condition THEN Cat(xshape, xshape) ELSE xshape
           x1 == Apply(net.init_conv, x0)
       IN  /\ GoOn(x1, IF Len(net.downs) > 0 THEN "down_block1" ELSE "mid")
           /\ rshape' = x1
    /\ h' = <<>>
    /\ ind' = 0
    /\ UNCHANGED <<schedVars, callVars, params, sampVars, cfgVars, trainVars, net>>

\* x = block1(x, t); h.append(x)
DownBlock1 ==
    /\ pc = "down_block1"
    /\ LET x1 == Apply(net.downs[ind + 1][1], xshape)
       IN  /\ GoOn(x1, "down_block2")
           /\ h' = IF x1 = ShapeError THEN h ELSE Append(h, x1)
    /\ UNCHANGED <<schedVars, callVars, params, sampVars, cfgVars, trainVars, net,
                   rshape, ind>>

\* x = block2(x, t); x = attn(x); h.append(x)
DownBlock2 ==
    /\ pc = "down_block2"
    /\ LET x1 == Apply(net.downs[ind + 1][3], Apply(net.downs[ind + 1][2], xshape))
       IN  /\ GoOn(x1, "downsample")
           /\ h' = IF x1 = ShapeError THEN h ELSE Append(h, x1)
    /\ UNCHANGED <<schedVars, callVars, params, sampVars, cfgVars, trainVars, net,
                   rshape, ind>>

\* x = downsample(x), and the loop over self.downs goes on or ends
DownDownsample ==
    /\ pc = "downsample"
    /\ GoOn(Apply(net.downs[ind + 1][4], xshape),
            AfterStage(Len(net.downs), "down_block1", "mid"))
    /\ ind' = IF ind + 1 < Len(net.downs) THEN ind + 1 ELSE 0
    /\ UNCHANGED <<schedVars, callVars, params, sampVars, cfgVars, trainVars, net,
                   rshape, h>>

\* x = mid_block1(x, t); x = mid_attn(x); x = mid_block2(x, t)
Mid ==
    /\ pc = "mid"
    /\ GoOn(Apply(net.mid_block2, Apply(net.mid_attn, Apply(net.mid_block1, xshape))),
            IF Len(net.ups) > 0 THEN "up_block1" ELSE "final")
    /\ UNCHANGED <<schedVars, callVars, params, sampVars, cfgVars, trainVars, net,
                   rshape, h, ind>>

\* x = torch.cat((x, h.pop()), dim=1); x = block1(x, t)
UpBlock1 ==
    /\ pc = "up_block1"
    /\ IF h = <<>>
       THEN pc' = "error" /\ UNCHANGED <<xshape, h>>
       ELSE /\ GoOn(Apply(net.ups[ind + 1][1], Cat(xshape, h[Len(h)])), "up_block2")
            /\ h' = SubSeq(h, 1, Len(h) - 1)
    /\ UNCHANGED <<schedVars, callVars, params, sampVars, cfgVars, trainVars, net,
                   rshape, ind>>

\* x = torch.cat((x, h.pop()), dim=1); x = block2(x, t); x = attn(x)
UpBlock2 ==
    /\ pc = "up_block2"
    /\ IF h = <<>>
       THEN pc' = "error" /\ UNCHANGED <<xshape, h>>
       ELSE /\ GoOn(Apply(net.ups[ind + 1][3],
                          Apply(net.ups[ind + 1][2], Cat(xshape, h[Len(h)]))),
                    "upsample")
            /\ h' = SubSeq(h, 1, Len(h) - 1)
    /\ UNCHANGED <<schedVars, callVars, params, sampVars, cfgVars, trainVars, net,
                   rshape, ind>>

\* x = upsample(x), and the loop over self.ups goes on or ends
UpUpsample ==
    /\ pc = "upsample"
    /\ GoOn(Apply(net.ups[ind + 1][4], xshape),
            AfterStage(Len(net.ups), "up_block1", "final"))
    /\ ind' = IF ind + 1 < Len(net.ups) THEN ind + 1 ELSE 0
    /\ UNCHANGED <<schedVars, callVars, params, sampVars, cfgVars, trainVars, net,
                   rshape, h>>

\* x = torch.cat((x, r), dim=1); x = final_res_block(x, t); return final_conv(x)
Final ==
    /\ pc = "final"
    /\ LET out == Apply(net.final_conv,
                        Apply(net.final_res_block, Cat(xshape, rshape)))
       IN  /\ GoOn(out, "returned")
           /\ ret' = IF out = ShapeError THEN ret ELSE out
    /\ UNCHANGED <<schedVars, args, rand, params, sampVars, cfgVars, trainVars, net,
                   rshape, h, ind>>

NextUnet ==
    \/ Enter \/ DownBlock1 \/ DownBlock2 \/ DownDownsample \/ Mid
    \/ UpBlock1 \/ UpBlock2 \/ UpUpsample \/ Final

SpecUnet == InitUnet /\ [][NextUnet]_vars

\* the input's shape, the number of stages, and whether a size survives the
\* len(dim_mults) - 1 halvings
C6_Input == <<args.batch, args.channels, args.height, args.width>>
C6_Stages == Len(args.dim_mults)
C6_Halvings == IF C6_Stages >= 1 THEN C6_Stages - 1 ELSE 0
C6_Fits == args.height % (2 ^ C6_Halvings) = 0 /\ args.width % (2 ^ C6_Halvings) = 0

C12_Pair == InOut(Dims(args.dim, args.dim, args.dim_mults))[C6_Stages - ind]

\* the residual block that receives the next concatenation
C12_Receiver == net.ups[ind + 1][IF pc = "up_block1" THEN 1 ELSE 2]

\* the height of h at each position of the pass
C12_Balanced ==
    /\ pc = "down_block1" => Len(h) = 2 * ind
    /\ pc = "down_block2" => Len(h) = 2 * ind + 1
    /\ pc = "downsample" => Len(h) = 2 * ind + 2
    /\ pc = "mid" => Len(h) = 2 * C6_Stages
    /\ pc = "up_block1" => Len(h) = 2 * (C6_Stages - ind)
    /\ pc = "up_block2" => Len(h) = 2 * (C6_Stages - ind) - 1
    /\ pc = "upsample" => Len(h) = 2 * (C6_Stages - ind) - 2
    /\ pc \in {"final", "returned"} => h = <<>>

\* before each pop: the stack is not empty, its top has the batch size,
\* height and width of x, the top carries dim_in channels and x dim_out, and
\* the receiving block takes dim_out + dim_in channels
C12_Matched ==
    pc \in {"up_block1", "up_block2"} =>
        /\ h # <<>>
        /\ h[Len(h)][1] = xshape[1]
        /\ h[Len(h)][3] = xshape[3]
        /\ h[Len(h)][4] = xshape[4]
        /\ h[Len(h)][2] = C12_Pair[1]
        /\ xshape[2] = C12_Pair[2]
        /\ C12_Receiver.cin = C12_Pair[2] + C12_Pair[1]
        /\ Cat(xshape, h[Len(h)])[2] = C12_Receiver.cin

\* what a step does to h: block1 and block2 of the encoder each push the map
\* they produced, block1 and block2 of the decoder each pop one, no other
\* step touches h, and no step from the bottleneck on fails
C12_Step ==
    /\ pc \in {"down_block1", "down_block2"} /\ pc' # "error" => h' = Append(h, xshape')
    /\ pc \in {"up_block1", "up_block2"} => h = Append(h', h[Len(h)])
    /\ pc \in {"downsample", "mid", "upsample", "final"} => h' = h
    /\ pc \in {"mid", "up_block1", "up_block2", "upsample", "final"} => pc' # "error"

\* C12: in Unet.forward, for every dim_mults, each encoder stage pushes two
\* feature maps on h and each decoder stage pops two; no pop finds h empty; h
\* is empty when the decoder has finished; and each popped map has the
\* height and width of the tensor it is concatenated with and dim_in
\* channels, so that the concatenation has the dim_out + dim_in channels the
\* receiving residual block was built for.
C12_SkipStackMatched ==
    /\ [](C12_Balanced /\ C12_Matched)
    /\ [][C12_Step]_vars

\* the second decoder stage of a three-stage network is about to pop a map
\* whose channel count differs from x's, at half the input's resolution
C12_Witness ==
    /\ pc = "up_block2"
    /\ C6_Stages = 3
    /\ ind = 1
    /\ Len(h) = 3
    /\ h[3][2] # xshape[2]
    /\ 2 * xshape[3] = args.height
    /\ xshape[3] = h[3][3]

(***************************************************************************)
(* Specification of a notebook session: cell 16 computes the schedule,     *)
(* then q_sample, p_losses, p_sample, p_sample_loop and the training run   *)
(* of cell 28 are run in any order, one after the other.  p_sample_loop    *)
(* and the training run advance one statement per action, as above; the     *)
(* other functions are one call per action.  A call's arguments, result    *)
(* and locals are dead once the next cell starts and are cleared then; the *)
(* weight the training run has reached and the number of optimizer steps   *)
(* taken stay.  The session trains once.                                   *)
(***************************************************************************)
MaxNotebookT == 2

InitNotebook ==
    /\ timesteps \in 1..MaxNotebookT
    /\ betas = <<>> /\ alphas = <<>> /\ alphas_cumprod = <<>>
    /\ alphas_cumprod_prev = <<>> /\ sqrt_recip_alphas = <<>>
    /\ sqrt_alphas_cumprod = <<>> /\ sqrt_one_minus_alphas_cumprod = <<>>
    /\ posterior_variance = <<>>
    /\ pc = "cell16"
    /\ args = None /\ ret = None /\ rand = None
    /\ params \in {0, ONE \div 2}
    /\ SampleIdle /\ TrainIdle /\ UnetIdle

\* q_sample(x_start, t, noise)
RunQSample ==
    /\ pc = "ready"
    /\ \E x_start \in TrainBatches :
       \E t \in Timesteps(Len(x_start), timesteps) :
       \E noise \in {None} \cup Tensors(ShapeOf(x_start), TrainNoise) :
       \E draw \in Tensors(ShapeOf(x_start), TrainNoise) :
         /\ args' = [x_start |-> x_start, t |-> t, noise |-> noise]
         /\ ret' = q_sample(x_start, t, noise, draw)
         /\ rand' = IF DrawsNoise(noise) THEN draw ELSE None
    /\ pc' = "returned"
    /\ UNCHANGED <<unetVars, schedVars, params, sampVars, cfgVars, trainVars>>

\* p_losses(model, x_start, t, noise, loss_type)
RunPLosses ==
    /\ pc = "ready"
    /\ \E x_start \in TrainBatches :
       \E t \in Timesteps(Len(x_start), timesteps) :
       \E noise \in {None} \cup Tensors(ShapeOf(x_start), TrainNoise) :
       \E draw \in Tensors(ShapeOf(x_start), TrainNoise) :
       \E loss_type \in {"l1", "l2", "huber"} :
         /\ args' = [x_start |-> x_start, t |-> t, noise |-> noise,
                     loss_type |-> loss_type]
         /\ ret' = p_losses(params, x_start, t, noise, loss_type, draw)
         /\ rand' = IF DrawsNoise(noise) THEN draw ELSE None
    /\ pc' = "returned"
    /\ UNCHANGED <<unetVars, schedVars, params, sampVars, cfgVars, trainVars>>

\* p_sample(model, x, torch.full((b,), t_index), t_index)
RunPSample ==
    /\ pc = "ready"
    /\ \E x \in TrainBatches :
       \E t_index \in 0..(timesteps - 1) :
       \E draw \in Tensors(ShapeOf(x), TrainNoise) :
         LET t == Full(Len(x), t_index)
             r == p_sample(params, x, t, t_index, draw)
         IN  /\ args' = [x |-> x, t |-> t, t_index |-> t_index]
             /\ ret' = r.out
             /\ rand' = r.noise
    /\ pc' = "returned"
    /\ UNCHANGED <<unetVars, schedVars, params, sampVars, cfgVars, trainVars>>

\* p_sample_loop(model, shape) is called; LoopStart, LoopStep and LoopReturn
\* run it
RunPSampleLoop ==
    /\ pc = "ready"
    /\ args' \in [shape : SampleShapes]
    /\ ret' = None /\ rand' = None
    /\ pc' = "p_sample_loop"
    /\ UNCHANGED <<unetVars, schedVars, params, sampVars, cfgVars, trainVars>>

\* cell 28 is run; the actions of the training run carry it out
RunTraining ==
    /\ pc = "ready"
    /\ opt_steps = 0
    /\ epochs' \in 1..MaxEpochs
    /\ save_and_sample_every' \in 1..MaxEvery
    /\ dataloader' \in 1..MaxBatches
    /\ epoch' = 0 /\ step' = -1
    /\ pc' = "for"
    /\ UNCHANGED <<unetVars, schedVars, callVars, params, sampVars, batch,
                   batch_size, t_batch, loss, grads, files, trace, opt_steps>>

\* the call has returned, or the cell has ended (cell 28 with its loops
\* exhausted or with the error the export raised): the next cell can run
NextCell ==
    /\ pc \in {"returned", "done", "error"}
    /\ pc' = "ready"
    /\ args' = None /\ ret' = None /\ rand' = None
    /\ img' = None /\ imgs' = <<>> /\ iter' = 0 /\ calls' = <<>>
    /\ epochs' = 0 /\ save_and_sample_every' = 0 /\ dataloader' = 0
    /\ epoch' = 0 /\ step' = 0 /\ batch' = None /\ batch_size' = 0
    /\ t_batch' = None /\ loss' = None /\ grads' = 0 /\ files' = <<>>
    /\ trace' = <<>>
    /\ UNCHANGED <<unetVars, schedVars, params, opt_steps>>

NextNotebook ==
    \/ DefineSchedule
    \/ RunQSample \/ RunPLosses \/ RunPSample
    \/ RunPSampleLoop \/ LoopStart \/ LoopStep \/ LoopReturn
    \/ RunTraining \/ FetchBatch \/ EndEpoch \/ ZeroGrad \/ SampleTimesteps
    \/ ComputeLoss \/ Backward \/ OptimizerStep \/ SaveAndSample
    \/ NextCell

SpecNotebook == InitNotebook /\ [][NextNotebook]_vars

\* each schedule vector has length timesteps
C11_Lengths ==
    \A v \in {betas, alphas, alphas_cumprod, alphas_cumprod_prev,
              sqrt_recip_alphas, sqrt_alphas_cumprod,
              sqrt_one_minus_alphas_cumprod, posterior_variance} :
       Len(v) = timesteps

\* C11: once cell 16 has computed the schedule vectors, no step of q_sample,
\* p_losses, p_sample, p_sample_loop or the training run changes timesteps or
\* any of the eight vectors: each vector keeps its length T throughout, and
\* after any sequence of these operations each vector has the values cell 16
\* gave it.
C11_ScheduleUnchanged ==
    /\ [](pc # "cell16" => C11_Lengths)
    /\ [](pc = "ready" => ScheduleDefined(timesteps))
    /\ [][pc # "cell16" => UNCHANGED schedVars]_vars

\* a p_sample_loop of two steps has returned in a session that has trained,
\* and the vectors are the two-step schedule
C11_Witness ==
    /\ pc = "returned"
    /\ opt_steps >= 1
    /\ timesteps = 2
    /\ Len(calls) = 2
    /\ ScheduleDefined(2)
    /\ posterior_variance[2] > 0

\* extract(a, t, x_shape) reads a at the indices t, all inside a
C13_Reads(a, t) == \A b \in 1..Len(t) : t[b] >= 0 /\ t[b] + 1 \in DOMAIN a

\* the vectors q_sample looks up
C13_ForwardReads(t) ==
    /\ C13_Reads(sqrt_alphas_cumprod, t)
    /\ C13_Reads(sqrt_one_minus_alphas_cumprod, t)

\* the vectors p_sample looks up
C13_ReverseReads(t) ==
    /\ C13_Reads(betas, t)
    /\ C13_Reads(sqrt_one_minus_alphas_cumprod, t)
    /\ C13_Reads(sqrt_recip_alphas, t)
    /\ C13_Reads(posterior_variance, t)

\* C13: every timestep the training loop samples for a batch and every
\* timestep p_sample_loop generates lies in 0..T-1, so that each lookup extract
\* makes for them reads inside the length-T schedule vectors: the t of the
\* current batch, the t of every p_sample call made, and the index the next
\* iteration of p_sample_loop will use.
C13_LookupsInRange ==
    /\ t_batch # None =>
          /\ \A b \in 1..Len(t_batch) : t_batch[b] \in 0..(timesteps - 1)
          /\ C13_ForwardReads(t_batch)
    /\ \A k \in 1..Len(calls) :
          /\ calls[k].t_index \in 0..(timesteps - 1)
          /\ \A b \in 1..Len(calls[k].t) : calls[k].t[b] \in 0..(timesteps - 1)
          /\ C13_ReverseReads(calls[k].t)
    /\ pc = "for i" /\ iter <= timesteps =>
          /\ LoopIndices(timesteps)[iter] \in 0..(timesteps - 1)
          /\ C13_ReverseReads(Full(args.shape[1], LoopIndices(timesteps)[iter]))

\* in a session that has trained, a p_sample_loop over two timesteps has
\* returned after looking up the last index and then the first
C13_Witness ==
    /\ pc = "returned"
    /\ timesteps = 2
    /\ opt_steps >= 1
    /\ Len(calls) = 2
    /\ calls[1].t = Full(args.shape[1], 1)
    /\ calls[2].t = Full(args.shape[1], 0)

====
